---- MODULE Spec2Model ----
(***************************************************************************)
(* A model of flockwave.networking.scanner.NetworkScanner: the observer    *)
(* registry, the cached scan result, the change-driven run() loop with its *)
(* worker-thread scan pass, and the platform probes a scan pass consults.  *)
(* The scan pass, the carrier and access point probes, the macOS hardware  *)
(* port cache, find_interfaces_with_address and use_result_handler are     *)
(* also examined on their own, each under a specification of its own.      *)
(***************************************************************************)
EXTENDS Integers, Sequences, FiniteSets, TLC

\* ------------------------------------------------------------------ bounds

\* Change events the event source produces in one run.
MaxEvents == 3

\* Change events in a run whose callers also deregister observers or read
\* last_result.
MaxCycles == 2

\* Calls of add_result_handler in one run (handles handed out).
MaxRegs == 2

\* ------------------------------------------------------------ basic values

\* Python's None: a value that is no character sequence and no list object.
None == <<"None">>

\* The callbacks a caller may register.
Funcs == {"f", "g"}

\* Identities of list objects (the scan result lists and their copies).
Refs == {<<"r1">>, <<"r2">>, <<"r3">>}

Range(s) == {s[i] : i \in 1..Len(s)}

\* The index of the first element of s equal to x, 0 when there is none.
RECURSIVE IndexFrom(_, _, _)
IndexFrom(s, x, i) ==
  IF i > Len(s) THEN 0
  ELSE IF s[i] = x THEN i
  ELSE IndexFrom(s, x, i + 1)

RemoveAt(s, k) == SubSeq(s, 1, k - 1) \o SubSeq(s, k + 1, Len(s))

\* --------------------------------------------------------- interface names

\* Interface names are sequences of characters.
lo == <<"l", "o">>
eth0 == <<"e", "t", "h", "0">>
wlan0 == <<"w", "l", "a", "n", "0">>

Prefix(name, n) == SubSeq(name, 1, IF Len(name) < n THEN Len(name) ELSE n)

\* The characters str.strip() removes.
Whitespace == {" ", "\n", "\t", "\r", "\f"}

RECURSIVE LStrip(_)
LStrip(s) == IF s # <<>> /\ Head(s) \in Whitespace THEN LStrip(Tail(s)) ELSE s

RECURSIVE RStrip(_)
RStrip(s) ==
  IF s # <<>> /\ s[Len(s)] \in Whitespace
  THEN RStrip(SubSeq(s, 1, Len(s) - 1))
  ELSE s

\* str.strip()
Strip(s) == RStrip(LStrip(s))

Digits == <<"0", "1", "2", "3", "4", "5", "6", "7", "8", "9">>

IsDigit(c) == c \in Range(Digits)

DigitValue(c) == IndexFrom(Digits, c, 1) - 1

\* The value of a digit string; the underscores int() allows between
\* digits are passed over.
RECURSIVE DigitsValue(_, _)
DigitsValue(s, acc) ==
  IF s = <<>> THEN acc
  ELSE IF Head(s) = "_" THEN DigitsValue(Tail(s), acc)
  ELSE DigitsValue(Tail(s), 10 * acc + DigitValue(Head(s)))

\* int(text) for a stripped text: the record [ok, value]; ok is FALSE where
\* int() raises ValueError. int() takes an optional sign and digits, with
\* single underscores between digits.
ParseInt(text) ==
  LET signed == text # <<>> /\ Head(text) \in {"+", "-"}
      body == IF signed THEN Tail(text) ELSE text
      ok == /\ body # <<>>
            /\ \A i \in 1..Len(body) : IsDigit(body[i]) \/ body[i] = "_"
            /\ IsDigit(body[1])
            /\ IsDigit(body[Len(body)])
            /\ \A i \in 1..(Len(body) - 1) :
                 ~(body[i] = "_" /\ body[i + 1] = "_")
      magnitude == IF ok THEN DigitsValue(body, 0) ELSE 0
  IN  [ok |-> ok,
       value |-> IF signed /\ Head(text) = "-" THEN 0 - magnitude
                 ELSE magnitude]

\* ------------------------------------------------------- platform probes
\* An environment env is what the operating system answers during one scan
\* pass:
\*   env.interfaces   the names list_network_interfaces() returns
\*   env.ifaddresses  name -> (address family -> list of address records)
\*   env.carrier      name -> [exists, readable, data]:
\*                    /sys/class/net/<name>/carrier
\*   env.iwgetid      [started, returncode, stdout]: the outcome of
\*                    `iwgetid -r`; started is FALSE when the command could
\*                    not be run at all

\* Whether the name holds a "/" or two dots in a row.
IsUnsafeName(name) ==
  "/" \in Range(name)
    \/ \E i \in 1..(Len(name) - 1) : name[i] = "." /\ name[i + 1] = "."

\* What the body of the try block of _is_carrier_detected_linux does with
\* the carrier file: the record [value, opened, read, raised]. open() raises
\* for a file that does not exist, read() for one that cannot be read, int()
\* for a text that is no integer; raised tells whether one of them did.
ReadCarrier(file) ==
  LET parsed == ParseInt(Strip(file.data))
      read == file.exists /\ file.readable
  IN  [value |-> read /\ parsed.ok /\ parsed.value > 0,
       opened |-> TRUE,
       read |-> read,
       raised |-> ~(read /\ parsed.ok)]

\* _is_carrier_detected_linux without its check of the name.
is_carrier_detected_linux_unchecked(env, name) ==
  LET body == ReadCarrier(env.carrier[name])
  IN  [body EXCEPT !.value = ~body.raised /\ body.value, !.raised = FALSE]

\* wired._is_carrier_detected_linux: the value returned, whether a file was
\* opened and read, and whether an exception left the function.
is_carrier_detected_linux(env, name) ==
  IF IsUnsafeName(name)
  THEN [value |-> FALSE, opened |-> FALSE, read |-> FALSE, raised |-> FALSE]
  ELSE LET body == ReadCarrier(env.carrier[name])
       IN  \* except Exception: return False
           [body EXCEPT !.value = ~body.raised /\ body.value,
                        !.raised = FALSE]

\* wired.is_carrier_detected on Linux
is_carrier_detected(env, name) == is_carrier_detected_linux(env, name).value

\* wired._is_maybe_wired_or_wireless_linux
is_maybe_wired_or_wireless(name) ==
  Len(name) > 2
    /\ (Prefix(name, 2) \in {<<"e", "n">>, <<"w", "l">>, <<"w", "w">>}
          \/ Prefix(name, 3) = <<"e", "t", "h">>)

\* wireless._is_likely_wireless_linux
is_likely_wireless(name) ==
  Len(name) > 2 /\ Prefix(name, 2) \in {<<"w", "l">>, <<"w", "w">>}

\* The prefix of the line `networksetup -getairportnetwork` prints for an
\* interface that is associated.
PREFIX ==
  <<"C", "u", "r", "r", "e", "n", "t", " ", "W", "i", "-", "F", "i", " ",
    "N", "e", "t", "w", "o", "r", "k", ":", " ">>

StartsWith(s, prefix) ==
  Len(s) >= Len(prefix) /\ SubSeq(s, 1, Len(prefix)) = prefix

\* wireless._get_connected_access_point_name_darwin, given the outcome of
\* the command: the record [raised, value]. subprocess.run raises when the
\* command cannot be started, and nothing catches it.
get_connected_access_point_name_darwin(cmd) ==
  [raised |-> ~cmd.started,
   value |-> IF cmd.started /\ cmd.returncode = 0
                  /\ StartsWith(cmd.stdout, PREFIX)
             THEN Strip(SubSeq(cmd.stdout, Len(PREFIX) + 1, Len(cmd.stdout)))
             ELSE None]

\* wireless._get_connected_access_point_name_linux, given the outcome of
\* `iwgetid -r`: the record [raised, value].
get_connected_access_point_name_linux(cmd) ==
  [raised |-> ~cmd.started,
   value |-> IF cmd.started /\ cmd.returncode = 0
             THEN Strip(cmd.stdout)
             ELSE None]

\* wireless.get_connected_access_point_name on Linux: what it returns when
\* it returns. The name is not passed on to the command.
get_connected_access_point_name(env, name) ==
  get_connected_access_point_name_linux(env.iwgetid).value

\* scanner._is_loopback: addresses are 4-tuples of octets, the loopback
\* network is 127.0.0.0/8.
is_loopback(item) ==
  IF "addr" \in DOMAIN item THEN item["addr"][1] = 127 ELSE FALSE

\* ------------------------------------------------------------ the scan pass

\* The loop of _find_relevant_interfaces without `len(addresses) == 1`: a
\* link-layer address is enough for an interface without IPv4 address.
IsRelevantWithAnyLink(env, interface) ==
  LET addresses == env.ifaddresses[interface]
      has_ipv4 == "AF_INET" \in DOMAIN addresses /\ addresses["AF_INET"] # <<>>
  IN  IF ~has_ipv4
      THEN "AF_LINK" \in DOMAIN addresses
             /\ is_maybe_wired_or_wireless(interface)
      ELSE ~\E i \in 1..Len(addresses["AF_INET"]) :
               is_loopback(addresses["AF_INET"][i])

\* One iteration of the loop of _find_relevant_interfaces: whether the
\* interface is yielded.
IsRelevant(env, interface) ==
  LET addresses == env.ifaddresses[interface]
      has_ipv4 == "AF_INET" \in DOMAIN addresses /\ addresses["AF_INET"] # <<>>
  IN  IF ~has_ipv4
      THEN Cardinality(DOMAIN addresses) = 1
             /\ "AF_LINK" \in DOMAIN addresses
             /\ is_maybe_wired_or_wireless(interface)
      ELSE ~\E i \in 1..Len(addresses["AF_INET"]) :
               is_loopback(addresses["AF_INET"][i])

\* The addresses _find_relevant_interfaces yields with a relevant interface.
RelevantAddresses(env, interface) ==
  LET addresses == env.ifaddresses[interface]
  IN  IF "AF_INET" \in DOMAIN addresses THEN addresses["AF_INET"] ELSE <<>>

\* The body of the loop of _scan_interfaces with the carrier probe asked
\* for every interface, wireless ones included.
ScanItemByCarrier(env, interface) ==
  [interface |-> interface,
   type |-> IF is_likely_wireless(interface) THEN "WIRELESS" ELSE "WIRED",
   connected |-> is_carrier_detected(env, interface),
   access_point_name |->
     IF is_likely_wireless(interface)
     THEN get_connected_access_point_name(env, interface)
     ELSE None,
   addresses |-> RelevantAddresses(env, interface)]

\* Whether the body of the loop of _scan_interfaces raises for the
\* interface: the access point probe of a wireless interface raised.
ScanItemRaises(env, interface) ==
  is_likely_wireless(interface)
    /\ get_connected_access_point_name_linux(env.iwgetid).raised

\* The body of the loop of _scan_interfaces: the item built for one relevant
\* interface.
ScanItem(env, interface) ==
  IF is_likely_wireless(interface)
  THEN LET access_point_name == get_connected_access_point_name(env, interface)
       IN  [interface |-> interface,
            type |-> "WIRELESS",
            connected |-> access_point_name # None,
            access_point_name |-> access_point_name,
            addresses |-> RelevantAddresses(env, interface)]
  ELSE [interface |-> interface,
        type |-> "WIRED",
        connected |-> is_carrier_detected(env, interface),
        access_point_name |-> None,
        addresses |-> RelevantAddresses(env, interface)]

\* The result list after the first n interfaces of the enumeration.
RECURSIVE ScanPrefix(_, _)
ScanPrefix(env, n) ==
  IF n = 0 THEN <<>>
  ELSE LET interface == env.interfaces[n]
       IN  IF IsRelevant(env, interface)
           THEN Append(ScanPrefix(env, n - 1), ScanItem(env, interface))
           ELSE ScanPrefix(env, n - 1)

\* What _scan_interfaces returns when nothing raises.
ScanInterfaces(env) == ScanPrefix(env, Len(env.interfaces))

\* ------------------------------------------------------------ environments

Address(a, b, c, d) == <<a, b, c, d>>

LinkLayer == <<[addr |-> <<0, 0, 0, 0, 0, 1>>]>>

\* lo with a loopback address, eth0 with an IPv4 address and carrier, wlan0
\* without IPv4 address and associated to an access point.
EnvHome ==
  [interfaces |-> <<lo, eth0, wlan0>>,
   ifaddresses |->
     (lo :> [AF_INET |-> <<[addr |-> Address(127, 0, 0, 1),
                            netmask |-> Address(255, 0, 0, 0)]>>]
      @@ eth0 :> [AF_LINK |-> LinkLayer,
                  AF_INET |-> <<[addr |-> Address(192, 168, 1, 5),
                                 netmask |-> Address(255, 255, 255, 0)]>>]
      @@ wlan0 :> [AF_LINK |-> LinkLayer]),
   carrier |->
     (lo :> [exists |-> TRUE, readable |-> FALSE, data |-> <<>>]
      @@ eth0 :> [exists |-> TRUE, readable |-> TRUE, data |-> <<"1", "\n">>]
      @@ wlan0 :> [exists |-> TRUE, readable |-> TRUE, data |-> <<"1", "\n">>]),
   iwgetid |-> [started |-> TRUE, returncode |-> 0,
                stdout |-> <<"H", "o", "m", "e", "N", "e", "t", "\n">>]]

\* eth0 alone, unplugged: a link-layer address only, no carrier.
EnvUnplugged ==
  [interfaces |-> <<eth0>>,
   ifaddresses |-> (eth0 :> [AF_LINK |-> LinkLayer]),
   carrier |-> (eth0 :> [exists |-> TRUE, readable |-> TRUE, data |-> <<"0", "\n">>]),
   iwgetid |-> [started |-> TRUE, returncode |-> 255, stdout |-> <<>>]]

Envs == {EnvHome, EnvUnplugged}

\* -------------------------------------------------------------------- state

VARIABLES
  handlers,     \* NetworkScanner._handlers
  last_result,  \* NetworkScanner._last_result: None or a list object
  heap,         \* the contents of the list objects
  pc,           \* where run() is: idle, wait, scan, dispatch, exit, done
  exc,          \* the exception run() is propagating, "none" when there is none
  result,       \* run()'s local variable result
  idx,          \* the position of the list iterator of the dispatch loop
  pending,      \* change events produced and not yet taken by run()
  source,       \* the event iterator: unopened, open, closed
  aclosed,      \* how many times aclose() was called on the event iterator
  worker,       \* the worker thread of to_thread.run_sync
  inflight,     \* scan passes running on worker threads
  got,          \* the list a caller of last_result holds
  regs,         \* per entry of handlers, the add_result_handler call it is from
  issued,       \* per add_result_handler call, the callback of its handle
  lastCall,     \* what the last call of a deregistration handle did
  dispatch,     \* the record of the current (or last) dispatch
  count,        \* how many events, scan passes and dispatches there were
  lastEnv,      \* the environment of the last scan pass that returned
  backlog,      \* the most events that waited at once
  probe,        \* a probe or scan function under examination: inputs, outcome
  darwin,       \* the macOS hardware port cache, its clock and its callers
  ctx           \* the use_result_handler context a caller is in

vars ==
  <<handlers, last_result, heap, pc, exc, result, idx, pending, source,
    aclosed, worker, inflight, got, regs, issued, lastCall, dispatch, count,
    lastEnv, backlog, probe, darwin, ctx>>

\* What the scanner itself never touches.
labVars == <<probe, darwin, ctx>>

\* The state of a NetworkScanner and of its run().
scannerVars ==
  <<handlers, last_result, heap, pc, exc, result, idx, pending, source,
    aclosed, worker, inflight, got, regs, issued, lastCall, dispatch, count,
    lastEnv, backlog>>

registryVars == <<handlers, regs, issued, lastCall>>
loopVars ==
  <<pc, exc, result, idx, pending, source, aclosed, count, lastEnv, backlog>>
scanVars == <<worker, inflight>>
cacheVars == <<last_result, heap, got>>

WorkerOff == [state |-> "off", env |-> None, pos |-> 0, list |-> None]

NoDispatch ==
  [state |-> "none", start |-> <<>>, invoked |-> <<>>, changed |-> FALSE,
   passed |-> {}, raisedAt |-> 0]

NoCall ==
  [called |-> FALSE, stale |-> FALSE, absent |-> FALSE, changed |-> FALSE,
   raised |-> FALSE]

\* No probe is under examination, the hardware port cache was never
\* filled, no caller is inside a use_result_handler context.
NoProbe == [kind |-> "none"]

NoContext == [state |-> "none"]

\* NetworkScanner.__init__
ScannerInit ==
  /\ handlers = <<>>
  /\ last_result = None
  /\ heap = [r \in Refs |-> <<>>]
  /\ pc = "idle"
  /\ exc = "none"
  /\ result = None
  /\ idx = 0
  /\ pending = 0
  /\ source = "unopened"
  /\ aclosed = 0
  /\ worker = WorkerOff
  /\ inflight = 0
  /\ got = None
  /\ regs = <<>>
  /\ issued = <<>>
  /\ lastCall = NoCall
  /\ dispatch = NoDispatch
  /\ count = [produced |-> 0, received |-> 0, scansStarted |-> 0,
              scansReturned |-> 0, scansFailed |-> 0,
              dispatchesStarted |-> 0, dispatchesFinished |-> 0]
  /\ lastEnv = None
  /\ backlog = 0

\* A scanner that was just constructed, in a process that has not called
\* any probe yet.
Init ==
  /\ ScannerInit
  /\ probe = NoProbe
  /\ darwin = NoProbe
  /\ ctx = NoContext

\* ------------------------------------------------------------ list objects

\* A list object nothing refers to.
Alloc(live) == CHOOSE r \in Refs : r \notin live

\* The heap with the objects nothing refers to dropped.
Collect(h, live) == [r \in Refs |-> IF r \in live THEN h[r] ELSE <<>>]

\* ------------------------------------------------------ observer registry

\* add_result_handler(func): the callback is appended and a handle bound to
\* the callback is returned.
AddResultHandler(func) ==
  /\ Len(issued) < MaxRegs
  /\ handlers' = Append(handlers, func)
  /\ regs' = Append(regs, Len(issued) + 1)
  /\ issued' = Append(issued, func)
  /\ dispatch' = IF pc = "dispatch"
                 THEN [dispatch EXCEPT !.changed = TRUE]
                 ELSE dispatch
  /\ UNCHANGED <<labVars, lastCall, loopVars, scanVars, cacheVars>>

\* _remove_result_handler without its try/except: the ValueError of
\* list.remove() reaches the caller.
RemoveResultHandlerUncaught(hs, func) ==
  LET k == IndexFrom(hs, func, 1)
  IN  [index |-> k,
       handlers |-> IF k = 0 THEN hs ELSE RemoveAt(hs, k),
       raised |-> k = 0]

\* _remove_result_handler(func) on the registry hs: list.remove() drops the
\* first entry equal to func; its ValueError is caught when there is none.
RemoveResultHandler(hs, func) ==
  LET k == IndexFrom(hs, func, 1)
  IN  [index |-> k,
       handlers |-> IF k = 0 THEN hs ELSE RemoveAt(hs, k),
       raised |-> FALSE]

\* A call of the handle that the h-th add_result_handler call returned.
CallDisposer(h) ==
  /\ h \in 1..Len(issued)
  /\ LET removal == RemoveResultHandler(handlers, issued[h])
     IN  /\ handlers' = removal.handlers
         /\ regs' = IF removal.index = 0 THEN regs
                    ELSE RemoveAt(regs, removal.index)
         /\ lastCall' = [called |-> TRUE,
                         stale |-> h \notin Range(regs),
                         absent |-> issued[h] \notin Range(handlers),
                         changed |-> removal.handlers # handlers,
                         raised |-> removal.raised]
         /\ dispatch' = IF pc = "dispatch" /\ removal.handlers # handlers
                        THEN [dispatch EXCEPT !.changed = TRUE]
                        ELSE dispatch
  /\ UNCHANGED <<labVars, issued, loopVars, scanVars, cacheVars>>

\* ------------------------------------------------------------- last_result

\* The value the property last_result returns: list(self._last_result or ()).
LastResultValue ==
  IF last_result = None \/ heap[last_result] = <<>>
  THEN <<>>
  ELSE heap[last_result]

\* last_result returning the cached list itself instead of a copy of it.
ReadLastResultAliased ==
  LET live == {last_result, result, worker.list} \ {None}
      new == IF last_result = None THEN Alloc(live) ELSE last_result
  IN  /\ got' = new
      /\ heap' = Collect(heap, live \cup {new})
      /\ UNCHANGED <<labVars, last_result, registryVars, loopVars, scanVars, dispatch>>

\* A caller reads last_result and keeps the list it got: a new list object.
ReadLastResult ==
  LET live == {last_result, result, worker.list} \ {None}
      new == Alloc(live)
  IN  /\ got' = new
      /\ heap' = [Collect(heap, live) EXCEPT ![new] = LastResultValue]
      /\ UNCHANGED <<labVars, last_result, registryVars, loopVars, scanVars, dispatch>>

\* The caller changes the list it got: list.pop().
ChangeReturnedList ==
  /\ got # None
  /\ heap[got] # <<>>
  /\ heap' = [heap EXCEPT ![got] = SubSeq(heap[got], 1, Len(heap[got]) - 1)]
  /\ UNCHANGED <<labVars, last_result, got, registryVars, loopVars, scanVars,
                 dispatch>>

\* ------------------------------------------------------------ event source

\* The list objects something refers to.
Live == {last_result, result, worker.list, got} \ {None}

\* The network event detector reports a change: the event waits until run()
\* takes it. At most limit events are produced.
ProduceEventUpTo(limit) ==
  /\ source = "open"
  /\ count.produced < limit
  /\ pending' = pending + 1
  /\ count' = [count EXCEPT !.produced = @ + 1]
  /\ UNCHANGED <<labVars, pc, exc, result, idx, source, aclosed, lastEnv,
                 registryVars, scanVars, cacheVars, dispatch>>

\* An event of a run of up to MaxEvents events; backlog records the most
\* events that waited at once.
ProduceEvent ==
  /\ ProduceEventUpTo(MaxEvents)
  /\ backlog' = IF pending + 1 > backlog THEN pending + 1 ELSE backlog

\* An event of a run of up to MaxCycles events.
ProduceCycleEvent ==
  /\ ProduceEventUpTo(MaxCycles)
  /\ UNCHANGED backlog

\* ------------------------------------------------------------------- run()

\* run() is called: the imports succeed and the event subscription
\* detector.events() is opened.
Run ==
  /\ pc = "idle"
  /\ pc' = "wait"
  /\ source' = "open"
  /\ UNCHANGED <<labVars, backlog, exc, result, idx, pending, aclosed, count, lastEnv,
                 registryVars, scanVars, cacheVars, dispatch>>

\* run() is called without the 'async' extra installed: RuntimeError, before
\* any subscription is opened.
RunWithoutAsyncExtra ==
  /\ pc = "idle"
  /\ pc' = "done"
  /\ exc' = "RuntimeError"
  /\ UNCHANGED <<labVars, backlog, result, idx, pending, source, aclosed, count,
                 lastEnv, registryVars, scanVars, cacheVars, dispatch>>

\* run() taking an event without waiting for the cycle of the previous one.
NextEventOverlapping ==
  /\ pc \in {"wait", "scan", "dispatch"}
  /\ pending > 0
  /\ pending' = pending - 1
  /\ count' = [count EXCEPT !.received = @ + 1]
  /\ pc' = "scan"
  /\ worker' = [WorkerOff EXCEPT !.state = "queued"]
  /\ UNCHANGED <<labVars, backlog, exc, result, idx, source, aclosed, lastEnv,
                 inflight, registryVars, cacheVars, dispatch>>

\* run() debouncing: all the events that wait are taken as one.
NextEventDebounced ==
  /\ pc = "wait"
  /\ pending > 0
  /\ pending' = 0
  /\ count' = [count EXCEPT !.received = @ + 1]
  /\ pc' = "scan"
  /\ worker' = [WorkerOff EXCEPT !.state = "queued"]
  /\ UNCHANGED <<labVars, backlog, exc, result, idx, source, aclosed, lastEnv,
                 inflight, registryVars, cacheVars, dispatch>>

\* `async for _ in network_events` yields the next event and run() awaits
\* to_thread.run_sync(self._scan_interfaces).
NextEvent ==
  /\ pc = "wait"
  /\ pending > 0
  /\ pending' = pending - 1
  /\ count' = [count EXCEPT !.received = @ + 1]
  /\ pc' = "scan"
  /\ worker' = [WorkerOff EXCEPT !.state = "queued"]
  /\ UNCHANGED <<labVars, backlog, exc, result, idx, source, aclosed, lastEnv,
                 inflight, registryVars, cacheVars, dispatch>>

\* The event source ends: the async for loop is left normally.
EventsExhausted ==
  /\ pc = "wait"
  /\ pending = 0
  /\ pc' = "exit"
  /\ UNCHANGED <<labVars, backlog, exc, result, idx, pending, source, aclosed, count,
                 lastEnv, registryVars, scanVars, cacheVars, dispatch>>

\* The event source fails: the exception of the iterator leaves the async
\* for loop.
EventSourceFails ==
  /\ pc = "wait"
  /\ pc' = "exit"
  /\ exc' = "SourceError"
  /\ UNCHANGED <<labVars, backlog, result, idx, pending, source, aclosed, count,
                 lastEnv, registryVars, scanVars, cacheVars, dispatch>>

\* run() is cancelled at a checkpoint: while it waits for the next event, or
\* as it enters to_thread.run_sync, before the worker thread starts.
Cancelled ==
  /\ \/ pc = "wait"
     \/ pc = "scan" /\ worker.state = "queued"
  /\ pc' = "exit"
  /\ exc' = "Cancelled"
  /\ worker' = WorkerOff
  /\ UNCHANGED <<labVars, backlog, result, idx, pending, source, aclosed, count,
                 lastEnv, inflight, registryVars, cacheVars, dispatch>>

\* The worker thread enters _scan_interfaces: result = [].
ThreadStart ==
  /\ pc = "scan"
  /\ worker.state = "queued"
  /\ \E env \in Envs :
       worker' = [state |-> "running", env |-> env, pos |-> 0,
                  list |-> Alloc(Live)]
  /\ inflight' = inflight + 1
  /\ count' = [count EXCEPT !.scansStarted = @ + 1]
  /\ UNCHANGED <<labVars, backlog, pc, exc, result, idx, pending, source, aclosed,
                 lastEnv, registryVars, cacheVars, dispatch>>

\* The worker thread handles the next interface of the enumeration: the
\* interface is skipped, or its item is appended to the local list.
ScanStep ==
  /\ worker.state = "running"
  /\ worker.pos < Len(worker.env.interfaces)
  /\ LET interface == worker.env.interfaces[worker.pos + 1]
     IN  heap' = IF IsRelevant(worker.env, interface)
                 THEN [heap EXCEPT ![worker.list] =
                         Append(@, ScanItem(worker.env, interface))]
                 ELSE heap
  /\ worker' = [worker EXCEPT !.pos = @ + 1]
  /\ UNCHANGED <<labVars, last_result, got, inflight, registryVars, loopVars,
                 dispatch>>

\* What `except Exception: raise` makes of a scan pass that raised: run()
\* leaves the loop with the exception.
OnScanError == [pc |-> "exit", exc |-> "ScanError"]

\* The enumeration or an address lookup raises in the worker thread, and
\* to_thread.run_sync raises the exception in run().
ScanRaises ==
  /\ pc = "scan"
  /\ worker.state = "running"
  /\ pc' = OnScanError.pc
  /\ exc' = OnScanError.exc
  /\ worker' = WorkerOff
  /\ inflight' = inflight - 1
  /\ count' = [count EXCEPT !.scansFailed = @ + 1]
  /\ heap' = Collect(heap, Live \ {worker.list})
  /\ UNCHANGED <<labVars, backlog, last_result, got, result, idx, pending, source,
                 aclosed, lastEnv, registryVars, dispatch>>

\* run() without `self._last_result = result`.
ScanReturnsWithoutStore ==
  /\ pc = "scan"
  /\ worker.state = "running"
  /\ worker.pos = Len(worker.env.interfaces)
  /\ result' = worker.list
  /\ heap' = Collect(heap, {worker.list, last_result, got} \ {None})
  /\ worker' = WorkerOff
  /\ inflight' = inflight - 1
  /\ lastEnv' = worker.env
  /\ pc' = "dispatch"
  /\ idx' = 0
  /\ dispatch' = [NoDispatch EXCEPT !.state = "running", !.start = regs]
  /\ count' = [count EXCEPT !.scansReturned = @ + 1,
                            !.dispatchesStarted = @ + 1]
  /\ UNCHANGED <<labVars, backlog, exc, pending, source, aclosed, last_result, got,
                 registryVars>>

\* _scan_interfaces returns; run() stores the list in _last_result and
\* starts the loop over self._handlers.
ScanReturns ==
  /\ pc = "scan"
  /\ worker.state = "running"
  /\ worker.pos = Len(worker.env.interfaces)
  /\ result' = worker.list
  /\ last_result' = worker.list
  /\ heap' = Collect(heap, {worker.list, got} \ {None})
  /\ worker' = WorkerOff
  /\ inflight' = inflight - 1
  /\ lastEnv' = worker.env
  /\ pc' = "dispatch"
  /\ idx' = 0
  /\ dispatch' = [NoDispatch EXCEPT !.state = "running", !.start = regs]
  /\ count' = [count EXCEPT !.scansReturned = @ + 1,
                            !.dispatchesStarted = @ + 1]
  /\ UNCHANGED <<labVars, backlog, exc, pending, source, aclosed, got, registryVars>>

\* A dispatch loop over the distinct callbacks: a callback that was already
\* called in this dispatch is passed over.
HandlerReturnsOncePerCallback ==
  /\ pc = "dispatch"
  /\ idx < Len(handlers)
  /\ idx' = idx + 1
  /\ dispatch' = IF handlers[idx + 1] \in Range(SubSeq(handlers, 1, idx))
                 THEN dispatch
                 ELSE [dispatch EXCEPT !.invoked = Append(@, regs[idx + 1]),
                                       !.passed = @ \cup {heap[result]}]
  /\ UNCHANGED <<labVars, backlog, pc, exc, result, pending, source, aclosed, count,
                 lastEnv, registryVars, scanVars, cacheVars>>

\* The dispatch loop calls the next handler, which returns.
HandlerReturns ==
  /\ pc = "dispatch"
  /\ idx < Len(handlers)
  /\ idx' = idx + 1
  /\ dispatch' = [dispatch EXCEPT !.invoked = Append(@, regs[idx + 1]),
                                  !.passed = @ \cup {heap[result]}]
  /\ UNCHANGED <<labVars, backlog, pc, exc, result, pending, source, aclosed, count,
                 lastEnv, registryVars, scanVars, cacheVars>>

\* A dispatch loop that isolates a raising handler and goes on.
HandlerRaisesIsolated ==
  /\ pc = "dispatch"
  /\ idx < Len(handlers)
  /\ idx' = idx + 1
  /\ dispatch' = [dispatch EXCEPT !.invoked = Append(@, regs[idx + 1]),
                                  !.passed = @ \cup {heap[result]},
                                  !.raisedAt = idx + 1]
  /\ UNCHANGED <<labVars, backlog, pc, exc, result, pending, source, aclosed, count,
                 lastEnv, registryVars, scanVars, cacheVars>>

\* The dispatch loop calls the next handler, which raises: nothing in run()
\* catches the exception.
HandlerRaises ==
  /\ pc = "dispatch"
  /\ idx < Len(handlers)
  /\ idx' = idx + 1
  /\ dispatch' = [dispatch EXCEPT !.invoked = Append(@, regs[idx + 1]),
                                  !.passed = @ \cup {heap[result]},
                                  !.state = "aborted",
                                  !.raisedAt = idx + 1]
  /\ pc' = "exit"
  /\ exc' = "ObserverError"
  /\ UNCHANGED <<labVars, backlog, result, pending, source, aclosed, count, lastEnv,
                 registryVars, scanVars, cacheVars>>

\* The list iterator of the dispatch loop is exhausted: back to the async
\* for.
DispatchEnds ==
  /\ pc = "dispatch"
  /\ idx >= Len(handlers)
  /\ pc' = "wait"
  /\ dispatch' = [dispatch EXCEPT !.state = "finished"]
  /\ count' = [count EXCEPT !.dispatchesFinished = @ + 1]
  /\ UNCHANGED <<labVars, backlog, exc, result, idx, pending, source, aclosed,
                 lastEnv, registryVars, scanVars, cacheVars>>

\* An __aexit__ that closes the iterator only when the block ended without
\* an exception.
ExitClosingOnSuccessOnly ==
  /\ pc = "exit"
  /\ aclosed' = IF exc = "none" THEN aclosed + 1 ELSE aclosed
  /\ source' = IF exc = "none" THEN "closed" ELSE source
  /\ pc' = "done"
  /\ UNCHANGED <<labVars, backlog, exc, result, idx, pending, count, lastEnv,
                 registryVars, scanVars, cacheVars, dispatch>>

\* aclosing.__aexit__: aclose() on the event iterator, then run() returns or
\* the exception goes on to the caller.
Exit ==
  /\ pc = "exit"
  /\ aclosed' = aclosed + 1
  /\ source' = "closed"
  /\ pc' = "done"
  /\ UNCHANGED <<labVars, backlog, exc, result, idx, pending, count, lastEnv,
                 registryVars, scanVars, cacheVars, dispatch>>

\* ------------------------------------------------------------ specification

\* The steps of run() and of its worker thread.
RunStep ==
  \/ Run
  \/ RunWithoutAsyncExtra
  \/ NextEvent
  \/ EventsExhausted
  \/ EventSourceFails
  \/ Cancelled
  \/ ThreadStart
  \/ ScanStep
  \/ ScanRaises
  \/ ScanReturns
  \/ HandlerReturns
  \/ HandlerRaises
  \/ DispatchEnds
  \/ Exit

\* The scanner with an event source that produces events at any time and
\* callers that register observers at any time.
Next ==
  \/ \E func \in Funcs : AddResultHandler(func)
  \/ ProduceEvent
  \/ RunStep

Spec == Init /\ [][Next]_vars

\* The scanner with callers that register and deregister observers at any
\* time, also during a dispatch.
NextRegistry ==
  \/ \E func \in Funcs : AddResultHandler(func)
  \/ \E h \in 1..MaxRegs : CallDisposer(h)
  \/ ProduceCycleEvent
  \/ RunStep

SpecRegistry == Init /\ [][NextRegistry]_vars

\* The scanner with callers that read last_result at any time, also during
\* a scan pass, and change the lists they got.
NextCache ==
  \/ \E func \in Funcs : AddResultHandler(func)
  \/ ReadLastResult
  \/ ChangeReturnedList
  \/ ProduceCycleEvent
  \/ RunStep

SpecCache == Init /\ [][NextCache]_vars

\* ------------------------------------------------------------- properties

\* How many entries of s equal x.
Occurrences(s, x) == Cardinality({i \in 1..Len(s) : s[i] = x})

\* C1: a scan pass that fails leaves the cached result as it was and does
\* not end run(): run() never leaves its loop with the exception of a scan
\* pass, and after a failed scan pass the cache still holds the result of the
\* last scan pass that returned.
C1_FailedScanDoesNotEndRun ==
  /\ exc # "ScanError"
  /\ count.scansFailed > 0 =>
       LastResultValue = IF count.scansReturned = 0 THEN <<>>
                         ELSE ScanInterfaces(lastEnv)

\* C2: scan passes are strictly serialized. At most one scan pass is in
\* flight, and only while run() awaits it; a dispatch runs only when no scan
\* pass is in flight, for the scan pass that returned last, and it has ended
\* when the next scan pass is in flight.
C2_ScansSerialized ==
  /\ inflight <= 1
  /\ inflight = 1 => pc = "scan" /\ worker.state = "running"
  /\ pc = "scan" => dispatch.state # "running"
  /\ dispatch.state = "running" <=> pc = "dispatch"
  /\ pc = "dispatch" =>
       /\ inflight = 0
       /\ worker.state = "off"
       /\ count.dispatchesStarted = count.scansReturned
       /\ count.dispatchesFinished = count.dispatchesStarted - 1
  /\ worker.state = "running" =>
       /\ count.scansStarted = count.scansReturned + 1
       /\ count.dispatchesFinished = count.scansReturned

\* C2 witness: a second scan pass is in flight after the first cycle ended,
\* while a further event already waits.
C2_Witness ==
  /\ pc = "scan"
  /\ inflight = 1
  /\ worker.pos > 0
  /\ count.dispatchesFinished = 1
  /\ pending > 0

\* C3: no debouncing. run() takes the events one at a time and drops none;
\* each event it takes starts one scan pass and each scan pass that returns
\* starts one dispatch, so whenever run() waits for the next event it has
\* completed as many scan-and-dispatch cycles as it took events.
C3_NoDebouncing ==
  /\ count.received = count.produced - pending
  /\ count.scansStarted <= count.received
  /\ count.dispatchesStarted = count.scansReturned
  /\ pc = "wait" =>
       /\ count.scansStarted = count.received
       /\ count.scansReturned = count.received
       /\ count.dispatchesFinished = count.received
  /\ worker.state = "running" =>
       /\ count.scansStarted = count.received
       /\ count.dispatchesFinished = count.received - 1
  /\ pc = "dispatch" =>
       /\ count.scansReturned = count.received
       /\ count.dispatchesFinished = count.received - 1

\* C3 witness: three events waited at once, before any scan pass, and run()
\* went through three cycles.
C3_Witness ==
  /\ backlog = 3
  /\ pc = "wait"
  /\ count.dispatchesFinished = 3

\* C4: in a dispatch during which the registry does not change, the
\* registrations called are the registry's, in registration order, one call
\* per registration: a prefix of the registry while the dispatch runs (or
\* when a handler raised), all of it when the dispatch has ended.
C4_DispatchFollowsRegistry ==
  /\ Len(handlers) = Len(regs)
  /\ \A i \in 1..Len(regs) : handlers[i] = issued[regs[i]]
  /\ \A i \in 1..Len(regs) : \A j \in 1..Len(regs) : i < j => regs[i] < regs[j]
  /\ (dispatch.state # "none" /\ ~dispatch.changed) =>
       /\ Len(dispatch.invoked) <= Len(dispatch.start)
       /\ dispatch.invoked = SubSeq(dispatch.start, 1, Len(dispatch.invoked))
       /\ dispatch.state = "finished" => dispatch.invoked = dispatch.start

\* C4 witness: a dispatch without registry change has ended in which the
\* same callback, registered twice, was called twice.
C4_Witness ==
  /\ dispatch.state = "finished"
  /\ ~dispatch.changed
  /\ Len(dispatch.invoked) = 2
  /\ dispatch.invoked[1] # dispatch.invoked[2]
  /\ issued[dispatch.invoked[1]] = issued[dispatch.invoked[2]]

\* C5: once a dispatch has ended, and until the next scan pass returns,
\* last_result equals the list that every observer of that dispatch was
\* called with.
C5_LastResultIsDispatched ==
  dispatch.state = "finished" =>
    \A passed \in dispatch.passed : LastResultValue = passed

\* C5 witness: observers were called with a non-empty result, the dispatch
\* ended, and the next scan pass is already building its list.
C5_Witness ==
  /\ dispatch.state = "finished"
  /\ dispatch.passed # {}
  /\ LastResultValue # <<>>
  /\ worker.state = "running"
  /\ heap[worker.list] # <<>>
  /\ heap[worker.list] # LastResultValue

\* C6 as stated: a call of a handle whose own registration was already
\* removed, or whose callback is not in the registry, raises nothing and
\* leaves the registry unchanged.
C6_StaleHandleIsNoOp ==
  (lastCall.called /\ (lastCall.stale \/ lastCall.absent)) =>
    (~lastCall.raised /\ ~lastCall.changed)

\* C6 amended: a call of a handle never raises, and it leaves the registry
\* unchanged exactly when no registration of the handle's callback is left;
\* while the callback is still registered (it was registered several times)
\* the call removes a registration of it, also when the handle's own
\* registration is gone.
C6_AbsentCallbackIsNoOp ==
  /\ ~lastCall.raised
  /\ lastCall.called => (lastCall.absent <=> ~lastCall.changed)
  /\ lastCall.absent => lastCall.stale

\* C6 witness: a handle was called a second time, with its callback no
\* longer registered, while another callback is registered.
C6_Witness ==
  /\ lastCall.called
  /\ lastCall.stale
  /\ lastCall.absent
  /\ handlers # <<>>

\* C7: a registry change during a dispatch cannot disturb the dispatch: when
\* the dispatch has ended, every registration that was in the registry when
\* it started and is still there has been called exactly once.
C7_DispatchSurvivesRegistryChange ==
  dispatch.state = "finished" =>
    \A r \in Range(dispatch.start) \cap Range(regs) :
      Occurrences(dispatch.invoked, r) = 1

\* C8: when an observer raises, run() ends with that exception: no observer
\* after the failing one is called, no scan pass is started any more, and
\* the exception is what run() propagates.
C8_ObserverFailureEndsRun ==
  dispatch.raisedAt # 0 =>
    /\ pc \in {"exit", "done"}
    /\ exc = "ObserverError"
    /\ dispatch.state = "aborted"
    /\ Len(dispatch.invoked) = dispatch.raisedAt
    /\ idx = dispatch.raisedAt
    /\ worker.state = "off"
    /\ inflight = 0
    /\ count.scansStarted = count.dispatchesStarted
    /\ count.received = count.dispatchesStarted

\* C8 witness: the first of two observers raised, run() has ended with the
\* exception, the second observer was not called and an event is left
\* untaken.
C8_Witness ==
  /\ dispatch.raisedAt = 1
  /\ ~dispatch.changed
  /\ Len(dispatch.start) = 2
  /\ Len(dispatch.invoked) = 1
  /\ pc = "done"
  /\ exc = "ObserverError"
  /\ pending > 0

\* C9: on every way out of run() after the subscription was opened, the
\* event iterator is closed exactly once before run() ends, and not before
\* run() leaves its loop.
C9_SubscriptionClosedOnce ==
  /\ source = "unopened" => aclosed = 0 /\ pc \in {"idle", "done"}
  /\ pc \in {"wait", "scan", "dispatch", "exit"} =>
       aclosed = 0 /\ source = "open"
  /\ (pc = "done" /\ source # "unopened") => aclosed = 1 /\ source = "closed"

\* C9 witness: run() was cancelled after it had taken an event, and has
\* ended with the iterator closed.
C9_Witness ==
  /\ pc = "done"
  /\ exc = "Cancelled"
  /\ count.received > 0
  /\ aclosed = 1

\* C10: last_result is empty as long as no scan pass has returned, and after
\* that the complete result of the scan pass that returned last, also while
\* the worker thread builds the next list; the list a caller got is an
\* object of its own, so changing it leaves last_result as it is.
C10_LastResultComplete ==
  /\ LastResultValue = IF count.scansReturned = 0 THEN <<>>
                       ELSE ScanInterfaces(lastEnv)
  /\ got # None => got \notin {last_result, worker.list}

\* C10 witness: a caller holds a list it got from last_result and changed,
\* while the worker thread has built a part of the next result.
C10_Witness ==
  /\ count.scansReturned > 0
  /\ LastResultValue # <<>>
  /\ got # None
  /\ heap[got] # LastResultValue
  /\ worker.state = "running"
  /\ worker.pos < Len(worker.env.interfaces)
  /\ heap[worker.list] # <<>>

\* ===================================================== the scan pass alone
\* A scan pass examined on its own, for every answer of the operating
\* system within bounds: _scan_interfaces is run twice on the same answers.

\* Interfaces the enumeration lists in one pass.
MaxInterfaces == 2

ScanNames == {lo, eth0, wlan0}

LinkLocal6 == <<[addr |-> <<"f", "e", "8", "0", ":", ":", "1">>]>>

Private4 ==
  [addr |-> Address(192, 168, 1, 5), netmask |-> Address(255, 255, 255, 0)]

Loopback4 ==
  [addr |-> Address(127, 0, 0, 1), netmask |-> Address(255, 0, 0, 0)]

\* What ifaddresses() may answer for an interface: no address at all, a
\* link-layer address only, link-layer and IPv6, IPv6 only, IPv4 with or
\* without a loopback address, an IPv4 entry without "addr".
AddressProfiles ==
  {<<>>,
   [AF_LINK |-> LinkLayer],
   [AF_LINK |-> LinkLayer, AF_INET6 |-> LinkLocal6],
   [AF_INET6 |-> LinkLocal6],
   [AF_LINK |-> LinkLayer, AF_INET |-> <<Private4>>],
   [AF_INET |-> <<Loopback4>>],
   [AF_INET |-> <<Private4, Loopback4>>],
   [AF_INET |-> <<[netmask |-> Address(255, 255, 0, 0)]>>]}

\* The carrier file of every interface of an environment.
CarrierAnswers ==
  {[exists |-> TRUE, readable |-> TRUE, data |-> <<"1", "\n">>],
   [exists |-> FALSE, readable |-> FALSE, data |-> <<>>]}

\* Outcomes of `iwgetid -r`: an access point name, nothing printed, a
\* failure exit code, the command missing.
IwgetidAnswers ==
  {[started |-> TRUE, returncode |-> 0, stdout |-> <<"A", "P", "\n">>],
   [started |-> TRUE, returncode |-> 0, stdout |-> <<>>],
   [started |-> TRUE, returncode |-> 255, stdout |-> <<>>],
   [started |-> FALSE, returncode |-> 0, stdout |-> <<>>]}

SeqsUpTo(S, n) == UNION {[1..k -> S] : k \in 0..n}

\* The environment of a scan pass: an enumeration, with repetitions, and
\* the answers for the interfaces it lists.
ScanEnv(names, addrs, file, cmd) ==
  [interfaces |-> names, ifaddresses |-> addrs,
   carrier |-> [n \in Range(names) |-> file], iwgetid |-> cmd]

\* A scan pass that is about to start: pass 1 of 2.
StartOfPass(env, pass, first) ==
  [kind |-> "scan", env |-> env, pass |-> pass, state |-> "running",
   pos |-> 0, yielded |-> <<>>, items |-> <<>>, first |-> first]

InitScan ==
  /\ ScannerInit
  /\ darwin = NoProbe
  /\ ctx = NoContext
  /\ \E names \in SeqsUpTo(ScanNames, MaxInterfaces) :
       \E addrs \in [Range(names) -> AddressProfiles] :
         \E file \in CarrierAnswers, cmd \in IwgetidAnswers :
           probe = StartOfPass(ScanEnv(names, addrs, file, cmd), 1, <<>>)

\* The next interface of the enumeration, while a pass runs.
NextInterface == probe.env.interfaces[probe.pos + 1]

ScanRunning ==
  /\ probe.kind = "scan"
  /\ probe.state = "running"
  /\ probe.pos < Len(probe.env.interfaces)

\* _find_relevant_interfaces passes over an interface.
FindSkips ==
  /\ ScanRunning
  /\ ~IsRelevant(probe.env, NextInterface)
  /\ probe' = [probe EXCEPT !.pos = @ + 1]
  /\ UNCHANGED <<scannerVars, darwin, ctx>>

\* A scan pass that builds no second item for an interface it has an item
\* for already.
FindYieldsDistinct ==
  /\ ScanRunning
  /\ IsRelevant(probe.env, NextInterface)
  /\ ~ScanItemRaises(probe.env, NextInterface)
  /\ LET seen == \E i \in 1..Len(probe.items) :
                   probe.items[i].interface = NextInterface
     IN  probe' =
           [probe EXCEPT
              !.pos = @ + 1,
              !.yielded =
                Append(@, [interface |-> NextInterface,
                           addresses |->
                             RelevantAddresses(probe.env, NextInterface)]),
              !.items = IF seen THEN @
                        ELSE Append(@, ScanItem(probe.env, NextInterface))]
  /\ UNCHANGED <<scannerVars, darwin, ctx>>

\* _find_relevant_interfaces yields an interface with its IPv4 addresses
\* and the loop of _scan_interfaces appends the item it builds for it.
FindYields ==
  /\ ScanRunning
  /\ IsRelevant(probe.env, NextInterface)
  /\ ~ScanItemRaises(probe.env, NextInterface)
  /\ probe' =
       [probe EXCEPT
          !.pos = @ + 1,
          !.yielded =
            Append(@, [interface |-> NextInterface,
                       addresses |->
                         RelevantAddresses(probe.env, NextInterface)]),
          !.items = Append(@, ScanItem(probe.env, NextInterface))]
  /\ UNCHANGED <<scannerVars, darwin, ctx>>

\* The access point probe raises in the loop of _scan_interfaces, which
\* has no try block: the pass ends without a result.
ScanPassRaises ==
  /\ ScanRunning
  /\ IsRelevant(probe.env, NextInterface)
  /\ ScanItemRaises(probe.env, NextInterface)
  /\ probe' = [probe EXCEPT !.state = "raised"]
  /\ UNCHANGED <<scannerVars, darwin, ctx>>

\* The first pass returns its list; the second pass starts on the same
\* answers.
ScanPassRepeats ==
  /\ probe.kind = "scan"
  /\ probe.state = "running"
  /\ probe.pos = Len(probe.env.interfaces)
  /\ probe.pass = 1
  /\ probe' = StartOfPass(probe.env, 2, probe.items)
  /\ UNCHANGED <<scannerVars, darwin, ctx>>

\* The second pass returns its list.
ScanPassReturns ==
  /\ probe.kind = "scan"
  /\ probe.state = "running"
  /\ probe.pos = Len(probe.env.interfaces)
  /\ probe.pass = 2
  /\ probe' = [probe EXCEPT !.state = "returned"]
  /\ UNCHANGED <<scannerVars, darwin, ctx>>

NextScan ==
  \/ FindSkips
  \/ FindYields
  \/ ScanPassRaises
  \/ ScanPassRepeats
  \/ ScanPassReturns

SpecScan == InitScan /\ [][NextScan]_vars

\* The lists a pass has produced so far: the one being built and the one
\* the first pass returned.
ScanLists == {probe.items, probe.first}

\* C11: in every scan result, a WIRED item has no access point name, and a
\* WIRELESS item is connected exactly when it has an access point name.
C11_ItemFieldsAgree ==
  probe.kind = "scan" =>
    \A list \in ScanLists : \A i \in 1..Len(list) :
      /\ list[i].type \in {"WIRED", "WIRELESS"}
      /\ list[i].type = "WIRED" => list[i].access_point_name = None
      /\ list[i].type = "WIRELESS" =>
           (list[i].connected <=> list[i].access_point_name # None)

\* A returned result with a WIRED item, and a WIRELESS item that is not
\* connected although the carrier file of its interface reads 1.
C11_Witness ==
  /\ probe.kind = "scan"
  /\ probe.state = "returned"
  /\ \E i \in 1..Len(probe.items) : probe.items[i].type = "WIRED"
  /\ \E i \in 1..Len(probe.items) :
       /\ probe.items[i].type = "WIRELESS"
       /\ ~probe.items[i].connected
       /\ is_carrier_detected(probe.env, probe.items[i].interface)

\* The interfaces of the items of a list, in the order of the list.
InterfacesOf(list) == [i \in 1..Len(list) |-> list[i].interface]

\* C12: a scan pass has exactly one item per relevant interface the
\* enumeration has listed so far, repetitions included, in the order of the
\* enumeration; the second pass on the same answers returns a list equal to
\* the one the first pass returned.
C12_OneItemPerListedInterface ==
  probe.kind = "scan" =>
    LET listed == SubSeq(probe.env.interfaces, 1, probe.pos)
        relevant == SelectSeq(listed, LAMBDA n : IsRelevant(probe.env, n))
    IN  /\ InterfacesOf(probe.items) = relevant
        /\ probe.state = "returned" => probe.items = probe.first

\* Both passes returned for an enumeration that lists one relevant
\* interface twice: the result has an item for each listing.
C12_Witness ==
  /\ probe.kind = "scan"
  /\ probe.state = "returned"
  /\ Len(probe.items) = 2
  /\ probe.items[1].interface = probe.items[2].interface

\* ================================================ the carrier probe alone

\* Interface names the carrier probe is asked about: plain names, a name
\* with a single dot, names with "/" and names with "..".
CarrierNames ==
  {eth0,
   wlan0,
   <<"e", "t", "h", "0", ".", "1">>,
   <<"e", "/", "0">>,
   <<"/">>,
   <<".", ".">>,
   <<"a", ".", ".", "b">>,
   <<".", ".", "/", "x">>}

\* What may be found at /sys/class/net/<name>/carrier.
CarrierFiles ==
  {[exists |-> FALSE, readable |-> FALSE, data |-> <<>>],
   [exists |-> TRUE, readable |-> FALSE, data |-> <<>>]}
    \cup {[exists |-> TRUE, readable |-> TRUE, data |-> d] :
            d \in {<<"1", "\n">>, <<"0", "\n">>, <<>>, <<"\n">>, <<"u", "p">>,
                   <<"-", "1", "\n">>, <<" ", "1", " ">>, <<"1", "_", "0">>,
                   <<"+", "2">>, <<"1", ".", "0">>, <<"0", "1">>,
                   <<"1", "_">>}}

InitCarrier ==
  /\ ScannerInit
  /\ darwin = NoProbe
  /\ ctx = NoContext
  /\ \E name \in CarrierNames, file \in CarrierFiles :
       probe = [kind |-> "carrier", name |-> name, file |-> file,
                called |-> FALSE,
                outcome |-> [value |-> FALSE, opened |-> FALSE,
                             read |-> FALSE, raised |-> FALSE]]

\* A call of is_carrier_detected(name) on Linux.
CallCarrierProbe ==
  /\ probe.kind = "carrier"
  /\ ~probe.called
  /\ probe' =
       [probe EXCEPT
          !.called = TRUE,
          !.outcome =
            is_carrier_detected_linux(
              [carrier |-> [n \in {probe.name} |-> probe.file]], probe.name)]
  /\ UNCHANGED <<scannerVars, darwin, ctx>>

NextCarrier == CallCarrierProbe

SpecCarrier == InitCarrier /\ [][NextCarrier]_vars

\* C13: for a name with "/" or ".." the carrier probe answers False and
\* opens no file; for any other name it answers True only when the file
\* was read and its text is an integer above 0, and False when the file
\* cannot be opened or read or its text is no integer; it never raises.
C13_CarrierProbeIsGuarded ==
  (probe.kind = "carrier" /\ probe.called) =>
    LET name == probe.name
        file == probe.file
        o == probe.outcome
        rejected ==
          \/ \E i \in 1..Len(name) : name[i] = "/"
          \/ \E i \in 1..(Len(name) - 1) : SubSeq(name, i, i + 1) = <<".", ".">>
        number == ParseInt(Strip(file.data))
        failed == ~file.exists \/ ~file.readable \/ ~number.ok
    IN  /\ ~o.raised
        /\ rejected => (~o.value /\ ~o.opened)
        /\ (~rejected /\ o.value) => (o.read /\ ~failed /\ number.value > 0)
        /\ (~rejected /\ failed) => ~o.value

\* The probe was asked about "../x" while a carrier file reading 1 was
\* there: it answered False and opened nothing.
C13_Witness ==
  /\ probe.kind = "carrier"
  /\ probe.called
  /\ probe.name = <<".", ".", "/", "x">>
  /\ probe.file = [exists |-> TRUE, readable |-> TRUE, data |-> <<"1", "\n">>]
  /\ ~probe.outcome.value
  /\ ~probe.outcome.opened

\* =========================================== the access point probe alone

\* What the wireless status command may print.
StatusOutputs ==
  {<<>>,
   <<"\n">>,
   <<"\t">>,
   <<"A", "P", "\n">>,
   <<" ", "A", "P", " ", "\n">>,
   <<"N", "o", "t", " ", "a", "s", "s", "o", "c", "i", "a", "t", "e", "d">>,
   PREFIX,
   PREFIX \o <<" ", "\n">>,
   PREFIX \o <<"H", "o", "m", "e", "\n">>}

\* Outcomes of the wireless status command: it ran and exited with a code,
\* or it could not be started (the program is not installed).
StatusOutcomes ==
  {[started |-> TRUE, returncode |-> rc, stdout |-> out] :
     rc \in {0, 1, 255}, out \in StatusOutputs}
    \cup {[started |-> FALSE, returncode |-> 0, stdout |-> <<>>]}

InitAccessPoint ==
  /\ ScannerInit
  /\ darwin = NoProbe
  /\ ctx = NoContext
  /\ \E platform \in {"Linux", "Darwin"}, cmd \in StatusOutcomes :
       probe = [kind |-> "access point", platform |-> platform, cmd |-> cmd,
                called |-> FALSE,
                outcome |-> [raised |-> FALSE, value |-> None]]

\* A call of get_connected_access_point_name(name) on Linux.
CallAccessPointProbeLinux ==
  /\ probe.kind = "access point"
  /\ probe.platform = "Linux"
  /\ ~probe.called
  /\ probe' =
       [probe EXCEPT
          !.called = TRUE,
          !.outcome = get_connected_access_point_name_linux(probe.cmd)]
  /\ UNCHANGED <<scannerVars, darwin, ctx>>

\* A call of get_connected_access_point_name(name) on macOS.
CallAccessPointProbeDarwin ==
  /\ probe.kind = "access point"
  /\ probe.platform = "Darwin"
  /\ ~probe.called
  /\ probe' =
       [probe EXCEPT
          !.called = TRUE,
          !.outcome = get_connected_access_point_name_darwin(probe.cmd)]
  /\ UNCHANGED <<scannerVars, darwin, ctx>>

NextAccessPoint == CallAccessPointProbeLinux \/ CallAccessPointProbeDarwin

SpecAccessPoint == InitAccessPoint /\ [][NextAccessPoint]_vars

\* C14: the access point probe never raises, and it answers None when the
\* status command could not be started or exited with a code other than 0.
C14_AccessPointProbeNeverRaises ==
  (probe.kind = "access point" /\ probe.called) =>
    /\ ~probe.outcome.raised
    /\ (~probe.cmd.started \/ probe.cmd.returncode # 0) =>
         probe.outcome.value = None

\* ============================================ find_interfaces_with_address
\* Addresses are short bit strings with a version; a netmask is a bit string
\* of the same length.

BitStrings == {<<0, 0>>, <<0, 1>>, <<1, 0>>, <<1, 1>>}

\* Bitwise and of two bit strings of one length.
BitAnd(a, m) == [i \in 1..Len(a) |-> a[i] * m[i]]

\* An entry of ifaddresses(interface)[family]. form tells how the netmask
\* is written: netifaces writes an IPv4 netmask as an address, and an IPv6
\* netmask either as an address (with or without a "/length" suffix) or,
\* where the platform gives it so, as a prefix length.
AddressSpec(version, addr, netmask, form) ==
  [version |-> version, addr |-> addr, netmask |-> netmask, form |-> form]

\* ip_network(f"{if_address}/{netmask}", strict=False): the record
\* [ok, version, base, mask]. The host bits are dropped. An IPv6 netmask
\* written as an address is not accepted: ok is FALSE where ValueError is
\* raised.
ip_network(spec) ==
  [ok |-> ~(spec.version = 6 /\ spec.form = "address"),
   version |-> spec.version,
   base |-> BitAnd(spec.addr, spec.netmask),
   mask |-> spec.netmask]

\* ip_address(address): the address object of a text or of an address
\* object.
ip_address(address) == [version |-> address.version, bits |-> address.bits]

\* `address_obj in network`: never true across versions.
InNetwork(address_obj, network) ==
  /\ address_obj.version = network.version
  /\ BitAnd(address_obj.bits, network.mask) = network.base

\* The address family find_interfaces_with_address looks up: the test is
\* made on the argument, which is an IPv6Address only when the caller
\* passed an address object, never when it passed a text.
FamilyOf(address) ==
  IF address.kind = "IPv6Address" THEN "AF_INET6" ELSE "AF_INET"

\* ifaddresses(interface).get(family) or []
SpecsOf(env, interface, family) ==
  IF family \in DOMAIN env.ifaddresses[interface]
  THEN env.ifaddresses[interface][family]
  ELSE <<>>

\* The arguments: the text of an IPv4 or IPv6 address, or an address
\* object.
FindArguments ==
  {[kind |-> k, version |-> v, bits |-> b] :
     k \in {"str"}, v \in {4, 6}, b \in BitStrings}
    \cup {[kind |-> "IPv4Address", version |-> 4, bits |-> b] :
            b \in BitStrings}
    \cup {[kind |-> "IPv6Address", version |-> 6, bits |-> b] :
            b \in BitStrings}

Ipv4Lists ==
  {<<>>,
   <<AddressSpec(4, <<1, 0>>, <<1, 0>>, "address")>>,
   <<AddressSpec(4, <<0, 1>>, <<1, 1>>, "address")>>,
   <<AddressSpec(4, <<1, 0>>, <<1, 0>>, "address"),
     AddressSpec(4, <<1, 1>>, <<0, 0>>, "address")>>}

Ipv6Lists ==
  {<<>>,
   <<AddressSpec(6, <<1, 0>>, <<1, 0>>, "length")>>,
   <<AddressSpec(6, <<1, 0>>, <<1, 0>>, "address")>>,
   <<AddressSpec(6, <<0, 1>>, <<1, 1>>, "length"),
     AddressSpec(6, <<1, 1>>, <<1, 0>>, "length")>>}

\* What ifaddresses() answers for an interface with the given IPv4 and
\* IPv6 entries: a family without entries has no key.
FamilyMap(v4, v6) ==
  IF v4 = <<>> /\ v6 = <<>> THEN [AF_LINK |-> LinkLayer]
  ELSE IF v6 = <<>> THEN [AF_LINK |-> LinkLayer, AF_INET |-> v4]
  ELSE IF v4 = <<>> THEN [AF_LINK |-> LinkLayer, AF_INET6 |-> v6]
  ELSE [AF_LINK |-> LinkLayer, AF_INET |-> v4, AF_INET6 |-> v6]

InitFind ==
  /\ ScannerInit
  /\ darwin = NoProbe
  /\ ctx = NoContext
  /\ \E address \in FindArguments :
       \E a4 \in Ipv4Lists, a6 \in Ipv6Lists, b4 \in Ipv4Lists,
          b6 \in Ipv6Lists :
         probe =
           [kind |-> "find",
            address |-> address,
            env |-> [interfaces |-> <<eth0, wlan0>>,
                     ifaddresses |-> (eth0 :> FamilyMap(a4, a6)
                                        @@ wlan0 :> FamilyMap(b4, b6))],
            state |-> "running", i |-> 1, j |-> 1, candidates |-> <<>>]

FindRunning == probe.kind = "find" /\ probe.state = "running"

\* The entries of the interface the outer loop is at.
CurrentSpecs ==
  SpecsOf(probe.env, probe.env.interfaces[probe.i], FamilyOf(probe.address))

\* The inner loop is at an entry.
AtSpec ==
  /\ FindRunning
  /\ probe.i <= Len(probe.env.interfaces)
  /\ probe.j <= Len(CurrentSpecs)

\* The address is in the network of the entry: the pair is appended.
FindAppends ==
  /\ AtSpec
  /\ LET network == ip_network(CurrentSpecs[probe.j])
     IN  /\ network.ok
         /\ InNetwork(ip_address(probe.address), network)
         /\ probe' =
              [probe EXCEPT
                 !.j = @ + 1,
                 !.candidates =
                   Append(@, [interface |-> probe.env.interfaces[probe.i],
                              network |-> [version |-> network.version,
                                           base |-> network.base,
                                           mask |-> network.mask]])]
  /\ UNCHANGED <<scannerVars, darwin, ctx>>

\* The address is not in the network of the entry.
FindPassesOver ==
  /\ AtSpec
  /\ LET network == ip_network(CurrentSpecs[probe.j])
     IN  /\ network.ok
         /\ ~InNetwork(ip_address(probe.address), network)
  /\ probe' = [probe EXCEPT !.j = @ + 1]
  /\ UNCHANGED <<scannerVars, darwin, ctx>>

\* ip_network raises ValueError for the entry; nothing catches it.
FindRaises ==
  /\ AtSpec
  /\ ~ip_network(CurrentSpecs[probe.j]).ok
  /\ probe' = [probe EXCEPT !.state = "raised"]
  /\ UNCHANGED <<scannerVars, darwin, ctx>>

\* The entries of an interface are exhausted: the outer loop moves on.
FindNextInterface ==
  /\ FindRunning
  /\ probe.i <= Len(probe.env.interfaces)
  /\ probe.j > Len(CurrentSpecs)
  /\ probe' = [probe EXCEPT !.i = @ + 1, !.j = 1]
  /\ UNCHANGED <<scannerVars, darwin, ctx>>

\* return candidates
FindReturns ==
  /\ FindRunning
  /\ probe.i > Len(probe.env.interfaces)
  /\ probe' = [probe EXCEPT !.state = "returned"]
  /\ UNCHANGED <<scannerVars, darwin, ctx>>

NextFind ==
  \/ FindAppends
  \/ FindPassesOver
  \/ FindRaises
  \/ FindNextInterface
  \/ FindReturns

SpecFind == InitFind /\ [][NextFind]_vars

\* The pairs for the entries of the given list, of one interface, whose
\* network holds the address, in the order of the list.
RECURSIVE MatchesIn(_, _, _)
MatchesIn(interface, specs, address) ==
  IF specs = <<>> THEN <<>>
  ELSE LET spec == Head(specs)
           base == BitAnd(spec.addr, spec.netmask)
           rest == MatchesIn(interface, Tail(specs), address)
       IN  IF BitAnd(address.bits, spec.netmask) = base
           THEN <<[interface |-> interface,
                   network |-> [version |-> spec.version, base |-> base,
                                mask |-> spec.netmask]]>> \o rest
           ELSE rest

\* The pairs for every interface address of the family of the address, in
\* enumeration order.
RECURSIVE MatchesFrom(_, _, _)
MatchesFrom(env, address, i) ==
  IF i > Len(env.interfaces) THEN <<>>
  ELSE MatchesIn(env.interfaces[i],
                 SpecsOf(env, env.interfaces[i],
                         IF address.version = 6 THEN "AF_INET6" ELSE "AF_INET"),
                 address)
         \o MatchesFrom(env, address, i + 1)

\* C15: find_interfaces_with_address returns, for an IPv4 or an IPv6
\* address, exactly the pairs (interface, network) of the interface
\* addresses of the family of the address whose network holds the address,
\* in enumeration order.
C15_FindsNetworksOfSameFamily ==
  (probe.kind = "find" /\ probe.state = "returned") =>
    probe.candidates = MatchesFrom(probe.env, probe.address, 1)

\* ------------------------------------------- the relevance filter (C16)

\* The address families ifaddresses() answers for an interface.
FamiliesOf(env, n) == DOMAIN env.ifaddresses[n]

\* The IPv4 address list of an interface, empty when it has none.
Ipv4Of(env, n) ==
  IF "AF_INET" \in FamiliesOf(env, n) THEN env.ifaddresses[n]["AF_INET"]
  ELSE <<>>

\* Case (a): there are IPv4 addresses and none is in 127.0.0.0/8.
HasRoutableIpv4(env, n) ==
  /\ Ipv4Of(env, n) # <<>>
  /\ \A i \in 1..Len(Ipv4Of(env, n)) :
       LET item == Ipv4Of(env, n)[i]
       IN  "addr" \in DOMAIN item => item.addr[1] # 127

\* Case (b): no IPv4 address, the link-layer family and no other, and a
\* name that may be a wired or wireless interface.
IsLinkOnly(env, n) ==
  /\ Ipv4Of(env, n) = <<>>
  /\ FamiliesOf(env, n) = {"AF_LINK"}
  /\ is_maybe_wired_or_wireless(n)

\* C16: _find_relevant_interfaces yields exactly the listed interfaces of
\* case (a) or case (b), with their IPv4 address list, which is empty in
\* case (b); an interface without IPv4 address that has an IPv6 address is
\* not yielded.
C16_YieldsExactlyRelevant ==
  probe.kind = "scan" =>
    LET env == probe.env
        listed == SubSeq(env.interfaces, 1, probe.pos)
        expected ==
          SelectSeq(listed,
                    LAMBDA n : HasRoutableIpv4(env, n) \/ IsLinkOnly(env, n))
    IN  /\ InterfacesOf(probe.yielded) = expected
        /\ \A i \in 1..Len(probe.yielded) :
             LET y == probe.yielded[i]
             IN  /\ y.addresses = Ipv4Of(env, y.interface)
                 /\ IsLinkOnly(env, y.interface) => y.addresses = <<>>
                 /\ ~(Ipv4Of(env, y.interface) = <<>>
                        /\ "AF_INET6" \in FamiliesOf(env, y.interface))

\* The filter has passed over eth0, which has a link-layer and an IPv6
\* address and no IPv4 address, and has yielded wlan0, which has a
\* link-layer address only, with an empty address list.
C16_Witness ==
  /\ probe.kind = "scan"
  /\ probe.env.interfaces = <<eth0, wlan0>>
  /\ FamiliesOf(probe.env, eth0) = {"AF_LINK", "AF_INET6"}
  /\ FamiliesOf(probe.env, wlan0) = {"AF_LINK"}
  /\ probe.pos = 2
  /\ probe.yielded = <<[interface |-> wlan0, addresses |-> <<>>]>>

\* ============================================ the macOS hardware port cache
\* _darwin.get_network_interface_to_device_map and its two module globals,
\* with a clock and one caller that keeps the last mapping it was given.
\* A mapping is a set of <<device, port>> pairs held by a dict object.

\* The last reading of the monotonic clock in a run.
MaxTime == 8

\* The age, in clock units, up to which the cached mapping is returned.
CacheLifetime == 5

DictRefs == {<<"d1">>, <<"d2">>, <<"d3">>}

en0 == <<"e", "n", "0">>

\* What parsing the output of `networksetup -listallhardwareports` gives:
\* the mapping of the ports listed, empty when the exit code is not 0.
PortMaps ==
  {{},
   {<<en0, "Wi-Fi">>},
   {<<en0, "Wi-Fi">>, <<<<"e", "n", "1">>, "Ethernet">>}}

\* _network_interface_to_device_map_last_checked_at when it is None.
NeverChecked == [set |-> FALSE, at |-> 0]

NoReport ==
  [called |-> FALSE, at |-> 0, done |-> FALSE, hadCache |-> FALSE, age |-> 0, ran |-> 0, before |-> {},
   returned |-> {}, answer |-> {}, stamped |-> FALSE]

InitDarwin ==
  /\ ScannerInit
  /\ probe = NoProbe
  /\ ctx = NoContext
  /\ darwin =
       [kind |-> "cache",
        now |-> 0,
        last_checked_at |-> NeverChecked,
        cached |-> None,
        heap |-> [r \in DictRefs |-> {}],
        held |-> None,
        call |-> "idle",
        stored |-> {},
        report |-> NoReport]

\* The test of line 18-20 with > for >=.
IsFreshStrict(last_checked_at, now) ==
  last_checked_at.set /\ last_checked_at.at > now - CacheLifetime

\* The test of line 18-20: there was a refresh and it is not older than the
\* lifetime.
IsFresh(last_checked_at, now) ==
  last_checked_at.set /\ last_checked_at.at >= now - CacheLifetime

\* The monotonic clock advances.
Tick ==
  /\ darwin.kind = "cache"
  /\ darwin.now < MaxTime
  /\ darwin' = [darwin EXCEPT !.now = @ + 1]
  /\ UNCHANGED <<scannerVars, probe, ctx>>

\* A call that finds the cache fresh: dict(cached), a new dict object with
\* the pairs of the cached one, is returned.
CallCached ==
  /\ darwin.kind = "cache"
  /\ darwin.call = "idle"
  /\ IsFresh(darwin.last_checked_at, darwin.now)
  /\ LET copy == CHOOSE r \in DictRefs : r # darwin.cached
     IN  darwin' =
           [darwin EXCEPT
              !.held = copy,
              !.heap = [@ EXCEPT ![copy] = darwin.heap[darwin.cached]],
              !.report =
                [called |-> TRUE, at |-> darwin.now, done |-> TRUE,
                 hadCache |-> TRUE,
                 age |-> darwin.now - darwin.last_checked_at.at,
                 ran |-> 0,
                 before |-> darwin.heap[darwin.cached],
                 returned |-> darwin.heap[darwin.cached],
                 answer |-> {},
                 stamped |-> FALSE]]
  /\ UNCHANGED <<scannerVars, probe, ctx>>

\* A call that finds no cache or a cache older than the lifetime: the
\* utility is started.
CallStale ==
  /\ darwin.kind = "cache"
  /\ darwin.call = "idle"
  /\ ~IsFresh(darwin.last_checked_at, darwin.now)
  /\ darwin' =
       [darwin EXCEPT
          !.call = "running",
          !.report =
            [called |-> TRUE, at |-> darwin.now, done |-> FALSE,
             hadCache |-> darwin.last_checked_at.set,
             age |-> IF ~darwin.last_checked_at.set THEN 0
                     ELSE darwin.now - darwin.last_checked_at.at,
             ran |-> 1,
             before |-> IF darwin.cached = None THEN {}
                        ELSE darwin.heap[darwin.cached],
             returned |-> {},
             answer |-> {},
             stamped |-> FALSE]]
  /\ UNCHANGED <<scannerVars, probe, ctx>>

\* The utility has ended: its output is parsed into result, which becomes
\* the cached mapping; the clock is read for the refresh time; dict(result)
\* is returned.
UtilityReturns ==
  /\ darwin.kind = "cache"
  /\ darwin.call = "running"
  /\ \E ports \in PortMaps :
       LET made == CHOOSE r \in DictRefs : r \notin {darwin.cached, darwin.held}
           copy == CHOOSE r \in DictRefs : r # made
       IN  darwin' =
             [darwin EXCEPT
                !.call = "idle",
                !.cached = made,
                !.last_checked_at = [set |-> TRUE, at |-> darwin.now],
                !.held = copy,
                !.heap = [r \in DictRefs |->
                            IF r \in {made, copy} THEN ports ELSE {}],
                !.stored = ports,
                !.report = [@ EXCEPT !.done = TRUE, !.returned = ports,
                                     !.answer = ports, !.stamped = TRUE]]
  /\ UNCHANGED <<scannerVars, probe, ctx>>

\* The caller changes the mapping it was given: it adds an entry or clears
\* the mapping.
ChangeReturnedMapping ==
  /\ darwin.kind = "cache"
  /\ darwin.call = "idle"
  /\ darwin.held # None
  /\ \E new \in {{}, darwin.heap[darwin.held] \cup {<<lo, "Loopback">>}} :
       /\ new # darwin.heap[darwin.held]
       /\ darwin' = [darwin EXCEPT !.heap = [@ EXCEPT ![darwin.held] = new]]
  /\ UNCHANGED <<scannerVars, probe, ctx>>

NextDarwin ==
  \/ Tick
  \/ CallCached
  \/ CallStale
  \/ UtilityReturns
  \/ ChangeReturnedMapping

SpecDarwin == InitDarwin /\ [][NextDarwin]_vars

\* C17: a call made at most CacheLifetime after the last refresh runs no
\* utility and returns the pairs of the cached mapping in another dict
\* object; a call made when there is no cache, or later than that, runs the
\* utility once and makes its answer the cached mapping and the time of
\* its end the refresh time; whatever the caller does to a mapping it was
\* given, the cached mapping holds what the last refresh stored.
C17_CacheServesForLifetime ==
  darwin.kind = "cache" =>
    /\ darwin.cached # None => darwin.heap[darwin.cached] = darwin.stored
    /\ darwin.held # None => darwin.held # darwin.cached
    /\ darwin.report.called =>
         (darwin.report.ran = 0 <=>
            (darwin.report.hadCache /\ darwin.report.age <= CacheLifetime))
    /\ (darwin.report.done /\ darwin.report.ran = 0) =>
         /\ darwin.report.called
         /\ darwin.report.returned = darwin.report.before
         /\ ~darwin.report.stamped
    /\ (darwin.report.done /\ darwin.report.ran = 1) =>
         /\ darwin.report.returned = darwin.report.answer
         /\ darwin.stored = darwin.report.answer
         /\ darwin.report.stamped
         /\ darwin.last_checked_at.set
         /\ darwin.last_checked_at.at <= darwin.now
    /\ (darwin.report.called /\ darwin.report.done
          /\ darwin.report.ran = 0) =>
         darwin.last_checked_at.at + darwin.report.age = darwin.report.at

\* A call exactly CacheLifetime after the refresh was served from the
\* cache, and the caller has since changed the mapping it was given.
C17_Witness ==
  /\ darwin.kind = "cache"
  /\ darwin.report.done
  /\ darwin.report.ran = 0
  /\ darwin.report.age = CacheLifetime
  /\ darwin.held # None
  /\ darwin.heap[darwin.held] # darwin.heap[darwin.cached]

\* ==================================================== use_result_handler
\* A caller that registers and deregisters observers, then enters a
\* use_result_handler(func) context whose body leaves the registry alone,
\* and leaves the context.

InitUse == Init

\* add_result_handler(func), called outside the context.
RegisterOutside(func) ==
  /\ ctx.state = "none"
  /\ AddResultHandler(func)

\* A deregistration handle is called outside the context.
DeregisterOutside(h) ==
  /\ ctx.state = "none"
  /\ CallDisposer(h)

\* The context is entered: disposer = self.add_result_handler(func), and
\* the generator stops at its yield.
UseEnter(func) ==
  /\ ctx.state = "none"
  /\ Len(issued) <= MaxRegs
  /\ handlers' = Append(handlers, func)
  /\ regs' = Append(regs, Len(issued) + 1)
  /\ issued' = Append(issued, func)
  /\ ctx' = [state |-> "inside", func |-> func, disposer |-> Len(issued) + 1,
             before |-> handlers, left |-> "no"]
  /\ UNCHANGED <<lastCall, dispatch, loopVars, scanVars, cacheVars, probe,
                 darwin>>

\* What disposer() does when the context is left.
Dispose(how) ==
  LET removal == RemoveResultHandler(handlers, issued[ctx.disposer])
  IN  /\ handlers' = removal.handlers
      /\ regs' = IF removal.index = 0 THEN regs
                 ELSE RemoveAt(regs, removal.index)
      /\ lastCall' = [called |-> TRUE,
                      stale |-> ctx.disposer \notin Range(regs),
                      absent |-> issued[ctx.disposer] \notin Range(handlers),
                      changed |-> removal.handlers # handlers,
                      raised |-> removal.raised]
      /\ ctx' = [ctx EXCEPT !.state = "exited", !.left = how]
      /\ UNCHANGED <<issued, dispatch, loopVars, scanVars, cacheVars, probe,
                     darwin>>

\* The body ends normally: the generator resumes after its yield and the
\* finally clause calls disposer().
UseExit ==
  /\ ctx.state = "inside"
  /\ Dispose("normally")

\* use_result_handler without try/finally: an exception raised in the body
\* leaves the generator at its yield and disposer() is not called.
UseExitByExceptionWithoutFinally ==
  /\ ctx.state = "inside"
  /\ ctx' = [ctx EXCEPT !.state = "exited", !.left = "by exception"]
  /\ UNCHANGED <<scannerVars, probe, darwin>>

\* The body raises: the exception is thrown into the generator at its
\* yield, the finally clause calls disposer(), the exception goes on.
UseExitByException ==
  /\ ctx.state = "inside"
  /\ Dispose("by exception")

NextUse ==
  \/ \E func \in Funcs : RegisterOutside(func)
  \/ \E h \in 1..MaxRegs : DeregisterOutside(h)
  \/ \E func \in Funcs : UseEnter(func)
  \/ UseExit
  \/ UseExitByException

SpecUse == InitUse /\ [][NextUse]_vars

\* C18 as stated: after the context is left, the registry is the sequence
\* of callbacks it was before the context was entered.
C18_RegistryIsSameSequence ==
  ctx.state = "exited" => handlers = ctx.before

\* C18, amended: after the context is left, normally or by an exception,
\* the registry holds every callback as many times as before the context
\* was entered; it is the same sequence when func was not registered
\* before, and otherwise the sequence before with the first entry of func
\* moved to the end.
C18_RegistryIsSameBag ==
  ctx.state = "exited" =>
    LET first == IndexFrom(ctx.before, ctx.func, 1)
    IN  /\ \A func \in Funcs :
             Occurrences(handlers, func) = Occurrences(ctx.before, func)
        /\ first = 0 => handlers = ctx.before
        /\ first # 0 =>
             handlers = Append(RemoveAt(ctx.before, first), ctx.func)

\* The context of a callback that was registered before, ahead of another
\* callback, was left by an exception: the registry is in another order.
C18_Witness ==
  /\ ctx.state = "exited"
  /\ ctx.left = "by exception"
  /\ ctx.func \in Range(ctx.before)
  /\ handlers # ctx.before

\* ------------------------------------------- cache before dispatch (C19)

\* C19: from the moment a dispatch starts, while its observers are called
\* one after the other, and after run() has ended because one of them
\* raised, last_result is the result of the scan pass being dispatched: the
\* list the observers are called with, built from the answers of that pass.
C19_CacheReplacedBeforeDispatch ==
  dispatch.state \in {"running", "aborted"} =>
    /\ last_result # None
    /\ LastResultValue = ScanInterfaces(lastEnv)
    /\ \A passed \in dispatch.passed : passed = LastResultValue
    /\ pc = "dispatch" => last_result = result

\* The second dispatch of a run was ended by its first observer, run() is
\* over, and last_result is the result of that second scan pass.
C19_Witness ==
  /\ dispatch.state = "aborted"
  /\ dispatch.raisedAt = 1
  /\ count.dispatchesStarted = 2
  /\ pc = "done"
  /\ LastResultValue = ScanInterfaces(EnvUnplugged)
  /\ dispatch.passed = {ScanInterfaces(EnvUnplugged)}

====
